---- MODULE Spec2Model ----
(***************************************************************************)
(* Admission validation handler of pkg/webhook/admission/validator.go:     *)
(* the ValidatorWrapper adapter and validatingHandler.Handle, modelled     *)
(* statement by statement, with several invocations of Handle in flight on *)
(* one handler.                                                            *)
(***************************************************************************)
EXTENDS Integers, Sequences, FiniteSets, TLC

\* ------------------------------------------------------------------ bounds

\* Number of Handle invocations that may be in flight on the one handler.
MaxInv == 2

\* Largest replica count a payload carries (the smallest is -1).
MaxReplicas == 1

\* http.StatusBadRequest, the status of every Errored verdict of Handle.
StatusBadRequest == 400

Inv == 1..MaxInv

Replicas == (-1)..MaxReplicas

\* ------------------------------------------------------------ requests

\* v1beta1.Operation: the three kinds Handle dispatches on, and CONNECT,
\* the fourth kind of the API, which Handle has no branch for.
Ops == {"CREATE", "UPDATE", "DELETE", "CONNECT"}

\* The request metadata (AdmissionRequest.UserInfo), opaque to Handle.
Metas == {"alice", "mallory"}

\* runtime.RawExtension: encoded bytes.  Either absent, or not JSON at all,
\* or the JSON encoding of a resource with a replica count.
RawEmpty == [fmt |-> "empty", replicas |-> 0]

RawGarbage == [fmt |-> "garbage", replicas |-> 0]

RawJson(n) == [fmt |-> "json", replicas |-> n]

Raws == {RawEmpty, RawGarbage} \cup {RawJson(n) : n \in Replicas}

\* admission.Request: operation kind, Object, OldObject, metadata.
Requests == [op : Ops, object : Raws, oldObject : Raws, meta : Metas]

\* The requests of the concurrent specification: every operation kind, a
\* primary payload that decodes or not, a previous payload that differs.
ConcRequests ==
  [op : Ops, object : {RawJson(1), RawGarbage},
   oldObject : {RawJson(-1)}, meta : {"alice"}]

NoReq == [op |-> "none", object |-> RawEmpty, oldObject |-> RawEmpty, meta |-> "none"]

\* ------------------------------------------------------------ instances

\* Concrete types of runtime.Object values.  "Native" is the type of the
\* wrapped Validator, "Other" another type that implements Validator,
\* "Foreign" a runtime.Object that does not; "nil" is the nil interface.
Types == {"Native", "Other", "Foreign", "nil"}

Implements(t) == t \in {"Native", "Other"}

NilObj == [type |-> "nil", replicas |-> 0]

\* The empty instance a validator's DeepCopyObject starts from.
EmptyObj == [type |-> "Native", replicas |-> 0]

\* Instance identities: the validator object itself, and per invocation the
\* allocation made at line 114 (obj) and the one made at line 128 (oldObj).
Proto == <<0, "validator">>

ObjId(i) == <<i, "obj">>

OldObjId(i) == <<i, "oldObj">>

InstanceIds == {Proto} \cup {ObjId(i) : i \in Inv} \cup {OldObjId(i) : i \in Inv}

NoId == <<0, "none">>

NoErr == "nil"

\* ------------------------------------------------------------ verdicts

Allowed(reason) == [kind |-> "Allowed", code |-> 0, reason |-> reason]

Denied(reason) == [kind |-> "Denied", code |-> 0, reason |-> reason]

Errored(code, err) == [kind |-> "Errored", code |-> code, reason |-> err]

NoResp == [kind |-> "none", code |-> 0, reason |-> ""]

\* -------------------------------------------------------------- decoder

\* Decoder.DecodeRaw on bytes: the error it returns (NoErr on success).
DecodeErr(raw) ==
  CASE raw.fmt = "json" -> NoErr
    [] raw.fmt = "empty" -> "unexpected end of JSON input"
    [] OTHER -> "invalid character"

\* The target after DecodeRaw: populated on success, unmodified on error.
DecodeInto(raw, target) ==
  IF DecodeErr(raw) = NoErr
  THEN [target EXCEPT !.replicas = raw.replicas]
  ELSE target

\* ----------------------------------------------- the validation capability

\* Validator.ValidateCreate of a type implementing Validator.
TypeValidateCreate(o) ==
  CASE o.type = "Native" ->
         IF o.replicas < 0 THEN "replicas must be >= 0" ELSE NoErr
    [] OTHER -> "other: create refused"

\* Validator.ValidateUpdate(old).
TypeValidateUpdate(o, old) ==
  CASE o.type = "Native" ->
         IF o.replicas < 0 THEN "replicas must be >= 0"
         ELSE IF o.replicas < old.replicas THEN "replicas must not decrease"
         ELSE NoErr
    [] OTHER -> "other: update refused"

\* Validator.ValidateDelete.
TypeValidateDelete(o) ==
  CASE o.type = "Native" ->
         IF o.replicas # 0 THEN "scale to zero before delete" ELSE NoErr
    [] OTHER -> "other: delete refused"

\* The outcome of a call: whether it panicked, the error returned, and the
\* Validator methods it invoked, in order.
Returned(err, invoked) == [panic |-> FALSE, err |-> err, invoked |-> invoked]

Panicked(invoked) == [panic |-> TRUE, err |-> NoErr, invoked |-> invoked]

CallRec(method, o, old) == [method |-> method, obj |-> o, old |-> old]

\* --------------------------------------------- the adapter (ValidatorWrapper)

\* ValidatorWrapper.DeepCopyObject: v.Validator.DeepCopyObject().  With a nil
\* wrapped Validator the call dereferences a nil interface and panics;
\* otherwise the result is a copy of the wrapped object.
WrapperDeepCopyObject(w, proto) ==
  IF w = "nil" THEN [panic |-> TRUE, obj |-> NilObj]
  ELSE [panic |-> FALSE, obj |-> proto]

\* Variant of ValidateCreate that looks at the request metadata.
WrapperValidateCreate_UsesMeta(o, meta) ==
  IF Implements(o.type)
  THEN Returned(IF meta = "mallory" THEN "user mallory is forbidden"
                ELSE TypeValidateCreate(o),
                <<CallRec("ValidateCreate", o, NilObj)>>)
  ELSE Panicked(<<>>)

\* ValidatorWrapper.ValidateCreate: obj.(Validator).ValidateCreate().  The
\* unchecked type assertion panics when obj does not implement Validator
\* (a nil obj included); the metadata argument is the blank identifier.
WrapperValidateCreate(o, meta) ==
  IF Implements(o.type)
  THEN Returned(TypeValidateCreate(o), <<CallRec("ValidateCreate", o, NilObj)>>)
  ELSE Panicked(<<>>)

\* ValidatorWrapper.ValidateDelete: obj.(Validator).ValidateDelete().
WrapperValidateDelete(o, meta) ==
  IF Implements(o.type)
  THEN Returned(TypeValidateDelete(o), <<CallRec("ValidateDelete", o, NilObj)>>)
  ELSE Panicked(<<>>)

\* ValidatorWrapper.ValidateUpdate: obj.(Validator).ValidateUpdate(old).
\* Only obj is asserted; old is passed on as it is.
WrapperValidateUpdate(o, old, meta) ==
  IF Implements(o.type)
  THEN Returned(TypeValidateUpdate(o, old), <<CallRec("ValidateUpdate", o, old)>>)
  ELSE Panicked(<<>>)

\* A MetaValidator supplied directly: it sees the request metadata, and
\* applies the same rules to the instance.
MetaValidateCreate(o, meta) ==
  IF meta = "mallory" THEN Returned("user mallory is forbidden", <<>>)
  ELSE Returned(TypeValidateCreate(o), <<>>)

MetaValidateDelete(o, meta) ==
  IF meta = "mallory" THEN Returned("user mallory is forbidden", <<>>)
  ELSE Returned(TypeValidateDelete(o), <<>>)

MetaValidateUpdate(o, old, meta) ==
  IF meta = "mallory" THEN Returned("user mallory is forbidden", <<>>)
  ELSE Returned(TypeValidateUpdate(o, old), <<>>)

\* --------------------------------------------------------------- state

VARIABLES
  validator,   \* h.validator: "nil", "meta" (a MetaValidator) or "wrapper"
  wrapped,     \* ValidatorWrapper.Validator: "nil" or "set"
  decoder,     \* h.decoder: "nil" or "set"
  heap,        \* the instances: identity -> value (NilObj: not allocated)
  pc,          \* per invocation: the line of Handle it is at
  req,         \* per invocation: its request
  obj,         \* per invocation: the local obj (an identity)
  oldObj,      \* per invocation: the local oldObj (an identity)
  resp,        \* per invocation: the Response returned
  fault,       \* per invocation: the panic message, "" when none
  decodes,     \* per invocation: the decode calls made, in order
  calls,       \* per invocation: the validation calls made, in order
  adCur,       \* the latest direct call of an adapter method, and its outcome
  adPrev       \* the direct call before it

hvars == <<validator, wrapped, decoder>>

ivars == <<heap, pc, req, obj, oldObj, resp, fault, decodes, calls>>

avars == <<adCur, adPrev>>

vars == <<validator, wrapped, decoder, heap, pc, req, obj, oldObj, resp, fault,
          decodes, calls, adCur, adPrev>>

NoCall ==
  [method |-> "none", obj |-> NilObj, old |-> NilObj, meta |-> "none",
   out |-> Returned(NoErr, <<>>)]

\* ValidatingWebhookFor(validator): the handler right after construction,
\* with the validator it was given and no decoder yet.  NewValidatorWrapper
\* accepts any Validator, nil included.
Init ==
  /\ validator \in {"nil", "meta", "wrapper"}
  /\ wrapped \in {"nil", "set"}
  /\ validator # "wrapper" => wrapped = "nil"
  /\ decoder = "nil"
  /\ heap = [id \in InstanceIds |-> IF id = Proto THEN EmptyObj ELSE NilObj]
  /\ pc = [i \in Inv |-> "idle"]
  /\ req = [i \in Inv |-> NoReq]
  /\ obj = [i \in Inv |-> NoId]
  /\ oldObj = [i \in Inv |-> NoId]
  /\ resp = [i \in Inv |-> NoResp]
  /\ fault = [i \in Inv |-> ""]
  /\ decodes = [i \in Inv |-> <<>>]
  /\ calls = [i \in Inv |-> <<>>]
  /\ adCur = NoCall
  /\ adPrev = NoCall

\* InjectDecoder: h.decoder = d.  The framework injects before it serves, so
\* no invocation is in flight.
InjectDecoder ==
  /\ \A i \in Inv : pc[i] = "idle"
  /\ decoder' = "set"
  /\ UNCHANGED <<validator, wrapped, heap, pc, req, obj, oldObj, resp, fault,
                 decodes, calls, adCur, adPrev>>

\* ------------------------------------------------------- Handle, by line

\* Variant of line 109 with the test inverted.
ValidatorIsNil_Inverted(v) == v # "nil"

\* Line 109: h.validator == nil.
ValidatorIsNil(v) == v = "nil"

\* Variant of line 114 that hands out the validator object itself, not a copy.
AllocObj_Shared(i) == Proto

\* Line 114: the identity of the instance DeepCopyObject returns, a new
\* allocation of the invocation.
AllocObj(i) == ObjId(i)

\* Line 128: the identity of the second instance, obj.DeepCopyObject().
AllocOldObj(i) == OldObjId(i)

\* Lines 115, 127, 145: the three tests of req.Operation.
IsCreate(r) == r.op = "CREATE"

\* Variant of line 127 that also takes Create requests.
IsUpdate_AlsoCreate(r) == r.op \in {"UPDATE", "CREATE"}

\* Line 127.
IsUpdate(r) == r.op = "UPDATE"

\* Variant of line 145 written as the else of the two tests above it.
IsDelete_Else(r) == r.op \notin {"CREATE", "UPDATE"}

\* Line 145.
IsDelete(r) == r.op = "DELETE"

\* Line 116: Decoder.Decode(req, obj) decodes req.Object.
CreateSource(r) == [name |-> "Object", raw |-> r.object]

\* Line 130: DecodeRaw(req.Object, obj).
UpdateNewSource(r) == [name |-> "Object", raw |-> r.object]

\* Line 134: DecodeRaw(req.OldObject, oldObj).
UpdateOldSource(r) == [name |-> "OldObject", raw |-> r.oldObject]

\* Variant of line 148 that decodes req.Object.
DeleteSource_Object(r) == [name |-> "Object", raw |-> r.object]

\* Line 148: DecodeRaw(req.OldObject, obj).
DeleteSource(r) == [name |-> "OldObject", raw |-> r.oldObject]

\* Variant of line 139 with the two arguments swapped.
UpdateArgs_Swapped(o, old) == [obj |-> old, old |-> o]

\* Line 139: the arguments of ValidateUpdate, new state first.
UpdateArgs(o, old) == [obj |-> o, old |-> old]

\* Variant that reports a decode error as a denial.
OnDecodeErr_Denied(err) == Denied(err)

\* Lines 118, 132, 136, 150: the verdict on a decode error.
OnDecodeErr(err) == Errored(StatusBadRequest, err)

\* Variant that drops the validation error's message.
OnValidateErr_Generic(err) == Denied("validation failed")

\* Lines 123, 141, 155: the verdict on a validation error.
OnValidateErr(err) == Denied(err)

\* Line 159: the verdict when nothing above returned.
Fallthrough == Allowed("")

\* h.validator.ValidateCreate / ValidateUpdate / ValidateDelete, dispatched
\* on the dynamic type of h.validator.
ValidatorCall(v, method, o, old, meta) ==
  CASE method = "ValidateCreate" ->
         IF v = "wrapper" THEN WrapperValidateCreate(o, meta)
         ELSE MetaValidateCreate(o, meta)
    [] method = "ValidateUpdate" ->
         IF v = "wrapper" THEN WrapperValidateUpdate(o, old, meta)
         ELSE MetaValidateUpdate(o, old, meta)
    [] OTHER ->
         IF v = "wrapper" THEN WrapperValidateDelete(o, meta)
         ELSE MetaValidateDelete(o, meta)

\* An unrecovered panic ends the invocation without a Response.
Panic(i, msg) ==
  /\ pc' = [pc EXCEPT ![i] = "panic"]
  /\ fault' = [fault EXCEPT ![i] = msg]
  /\ UNCHANGED resp

\* return r.
Return(i, r) ==
  /\ pc' = [pc EXCEPT ![i] = "done"]
  /\ resp' = [resp EXCEPT ![i] = r]
  /\ UNCHANGED fault

Goto(i, l) ==
  /\ pc' = [pc EXCEPT ![i] = l]
  /\ UNCHANGED <<resp, fault>>

\* A decode call of invocation i at a line: h.decoder.Decode / DecodeRaw of
\* src into the instance target; on an error return the Errored verdict,
\* otherwise go on at line next.  A nil h.decoder is dereferenced.
DecodeStep(i, src, target, next) ==
  IF decoder = "nil"
  THEN /\ Panic(i, "nil pointer dereference")
       /\ UNCHANGED <<heap, decodes>>
  ELSE /\ heap' = [heap EXCEPT ![target] = DecodeInto(src.raw, heap[target])]
       /\ decodes' = [decodes EXCEPT ![i] = Append(@,
            [line |-> pc[i], src |-> src.name, raw |-> src.raw,
             target |-> target, err |-> DecodeErr(src.raw)])]
       /\ IF DecodeErr(src.raw) # NoErr
          THEN Return(i, OnDecodeErr(DecodeErr(src.raw)))
          ELSE Goto(i, next)

\* A validation call of invocation i: the method of h.validator on the
\* instances o and old (NoId when the method takes none); on an error return
\* the Denied verdict, otherwise go on at line next.
ValidateStep(i, method, o, old, next) ==
  LET oldVal == IF old = NoId THEN NilObj ELSE heap[old]
      out == ValidatorCall(validator, method, heap[o], oldVal, req[i].meta)
  IN /\ calls' = [calls EXCEPT ![i] = Append(@,
          [method |-> method, obj |-> o, old |-> old, objVal |-> heap[o],
           oldVal |-> oldVal, meta |-> req[i].meta, err |-> out.err])]
     /\ IF out.panic THEN Panic(i, "interface conversion")
        ELSE IF out.err # NoErr THEN Return(i, OnValidateErr(out.err))
        ELSE Goto(i, next)

\* The platform calls Handle(ctx, r): invocation i starts.
Start(i, r) ==
  /\ pc[i] = "idle"
  /\ pc' = [pc EXCEPT ![i] = "L109"]
  /\ req' = [req EXCEPT ![i] = r]
  /\ UNCHANGED <<hvars, avars, heap, obj, oldObj, resp, fault, decodes, calls>>

\* if h.validator == nil { panic("validator should never be nil") }
L109(i) ==
  /\ pc[i] = "L109"
  /\ IF ValidatorIsNil(validator)
     THEN Panic(i, "validator should never be nil")
     ELSE Goto(i, "L114")
  /\ UNCHANGED <<hvars, avars, heap, req, obj, oldObj, decodes, calls>>

\* obj := h.validator.DeepCopyObject()
L114(i) ==
  /\ pc[i] = "L114"
  /\ LET copy == CASE validator = "wrapper" ->
                        WrapperDeepCopyObject(wrapped, heap[Proto])
                   [] validator = "meta" -> [panic |-> FALSE, obj |-> EmptyObj]
                   [] OTHER -> [panic |-> TRUE, obj |-> NilObj]
     IN IF copy.panic
        THEN /\ Panic(i, "nil pointer dereference")
             /\ UNCHANGED <<heap, obj>>
        ELSE /\ heap' = [heap EXCEPT ![AllocObj(i)] = copy.obj]
             /\ obj' = [obj EXCEPT ![i] = AllocObj(i)]
             /\ Goto(i, "L115")
  /\ UNCHANGED <<hvars, avars, req, oldObj, decodes, calls>>

\* if req.Operation == v1beta1.Create {
L115(i) ==
  /\ pc[i] = "L115"
  /\ Goto(i, IF IsCreate(req[i]) THEN "L116" ELSE "L127")
  /\ UNCHANGED <<hvars, avars, heap, req, obj, oldObj, decodes, calls>>

\* err := h.decoder.Decode(req, obj); if err != nil { return Errored(400, err) }
L116(i) ==
  /\ pc[i] = "L116"
  /\ DecodeStep(i, CreateSource(req[i]), obj[i], "L121")
  /\ UNCHANGED <<hvars, avars, req, obj, oldObj, calls>>

\* err = h.validator.ValidateCreate(obj, req.AdmissionRequest)
\* if err != nil { return Denied(err.Error()) }
L121(i) ==
  /\ pc[i] = "L121"
  /\ ValidateStep(i, "ValidateCreate", obj[i], NoId, "L127")
  /\ UNCHANGED <<hvars, avars, heap, req, obj, oldObj, decodes>>

\* if req.Operation == v1beta1.Update {
L127(i) ==
  /\ pc[i] = "L127"
  /\ Goto(i, IF IsUpdate(req[i]) THEN "L128" ELSE "L145")
  /\ UNCHANGED <<hvars, avars, heap, req, obj, oldObj, decodes, calls>>

\* oldObj := obj.DeepCopyObject()
L128(i) ==
  /\ pc[i] = "L128"
  /\ heap' = [heap EXCEPT ![AllocOldObj(i)] = heap[obj[i]]]
  /\ oldObj' = [oldObj EXCEPT ![i] = AllocOldObj(i)]
  /\ Goto(i, "L130")
  /\ UNCHANGED <<hvars, avars, req, obj, decodes, calls>>

\* err := h.decoder.DecodeRaw(req.Object, obj)
L130(i) ==
  /\ pc[i] = "L130"
  /\ DecodeStep(i, UpdateNewSource(req[i]), obj[i], "L134")
  /\ UNCHANGED <<hvars, avars, req, obj, oldObj, calls>>

\* err = h.decoder.DecodeRaw(req.OldObject, oldObj)
L134(i) ==
  /\ pc[i] = "L134"
  /\ DecodeStep(i, UpdateOldSource(req[i]), oldObj[i], "L139")
  /\ UNCHANGED <<hvars, avars, req, obj, oldObj, calls>>

\* err = h.validator.ValidateUpdate(obj, oldObj, req.AdmissionRequest)
L139(i) ==
  /\ pc[i] = "L139"
  /\ LET a == UpdateArgs(obj[i], oldObj[i])
     IN ValidateStep(i, "ValidateUpdate", a.obj, a.old, "L145")
  /\ UNCHANGED <<hvars, avars, heap, req, obj, oldObj, decodes>>

\* if req.Operation == v1beta1.Delete {
L145(i) ==
  /\ pc[i] = "L145"
  /\ Goto(i, IF IsDelete(req[i]) THEN "L148" ELSE "L159")
  /\ UNCHANGED <<hvars, avars, heap, req, obj, oldObj, decodes, calls>>

\* err := h.decoder.DecodeRaw(req.OldObject, obj)
L148(i) ==
  /\ pc[i] = "L148"
  /\ DecodeStep(i, DeleteSource(req[i]), obj[i], "L153")
  /\ UNCHANGED <<hvars, avars, req, obj, oldObj, calls>>

\* err = h.validator.ValidateDelete(obj, req.AdmissionRequest)
L153(i) ==
  /\ pc[i] = "L153"
  /\ ValidateStep(i, "ValidateDelete", obj[i], NoId, "L159")
  /\ UNCHANGED <<hvars, avars, heap, req, obj, oldObj, decodes>>

\* return Allowed("")
L159(i) ==
  /\ pc[i] = "L159"
  /\ Return(i, Fallthrough)
  /\ UNCHANGED <<hvars, avars, heap, req, obj, oldObj, decodes, calls>>

\* One statement of invocation i.
Step(i) ==
  \/ L109(i) \/ L114(i) \/ L115(i) \/ L116(i) \/ L121(i) \/ L127(i)
  \/ L128(i) \/ L130(i) \/ L134(i) \/ L139(i) \/ L145(i) \/ L148(i)
  \/ L153(i) \/ L159(i)

\* The invocation is over (its Response delivered, or its panic recovered by
\* the server): its instances are discarded and the slot serves again.
Finish(i) ==
  /\ pc[i] \in {"done", "panic"}
  /\ pc' = [pc EXCEPT ![i] = "idle"]
  /\ req' = [req EXCEPT ![i] = NoReq]
  /\ obj' = [obj EXCEPT ![i] = NoId]
  /\ oldObj' = [oldObj EXCEPT ![i] = NoId]
  /\ resp' = [resp EXCEPT ![i] = NoResp]
  /\ fault' = [fault EXCEPT ![i] = ""]
  /\ decodes' = [decodes EXCEPT ![i] = <<>>]
  /\ calls' = [calls EXCEPT ![i] = <<>>]
  /\ heap' = [heap EXCEPT ![ObjId(i)] = NilObj, ![OldObjId(i)] = NilObj]
  /\ UNCHANGED <<hvars, avars>>

InFlight(i) == pc[i] # "idle"

\* Requests served one at a time, from the full request domain.
SeqStart(i) ==
  /\ \A j \in Inv : ~InFlight(j)
  /\ \E r \in Requests : Start(i, r)

\* Requests served concurrently.
ConcStart(i) == \E r \in ConcRequests : Start(i, r)

\* The values a caller may hand to an adapter method: any runtime.Object,
\* the nil interface included.
AdapterObjs == [type : Types \ {"nil"}, replicas : Replicas] \cup {NilObj}

AdapterOlds == {[type |-> "Native", replicas |-> 1], NilObj}

\* A direct call of an exported method of a ValidatorWrapper.
AdapterCall ==
  \E method \in {"ValidateCreate", "ValidateUpdate", "ValidateDelete"},
     o \in AdapterObjs, old \in AdapterOlds, meta \in Metas :
    /\ method # "ValidateUpdate" => old = NilObj
    /\ adPrev' = adCur
    /\ adCur' = [method |-> method, obj |-> o, old |-> old, meta |-> meta,
                 out |-> ValidatorCall("wrapper", method, o, old, meta)]
    /\ UNCHANGED <<hvars, ivars>>

Next ==
  \/ InjectDecoder
  \/ \E i \in Inv : SeqStart(i)
  \/ \E i \in Inv : Step(i)
  \/ \E i \in Inv : Finish(i)

Spec == Init /\ [][Next]_vars

NextConc ==
  \/ InjectDecoder
  \/ \E i \in Inv : ConcStart(i)
  \/ \E i \in Inv : Step(i)
  \/ \E i \in Inv : Finish(i)

SpecConc == Init /\ [][NextConc]_vars

NextAdapter == AdapterCall

SpecAdapter == Init /\ [][NextAdapter]_vars

\* ------------------------------------------------------------ properties

Finished(i) == pc[i] \in {"done", "panic"}

DecodeFailures(i) == {k \in DOMAIN decodes[i] : decodes[i][k].err # NoErr}

\* C1: whenever a decode step of a request has failed, the request has
\* returned the verdict Errored with status 400 and that decode error, and
\* the request has made no validation call.
C1_DecodeFailureShortCircuits ==
  \A i \in Inv : \A k \in DecodeFailures(i) :
    /\ pc[i] = "done"
    /\ resp[i] = [kind |-> "Errored", code |-> 400, reason |-> decodes[i][k].err]
    /\ calls[i] = <<>>
    /\ k = Len(decodes[i])

C1_Witness ==
  \E i \in Inv :
    /\ req[i].op = "UPDATE"
    /\ Len(decodes[i]) = 2
    /\ decodes[i][1].err = NoErr
    /\ decodes[i][2].err = "invalid character"
    /\ resp[i].kind = "Errored"

\* C2: a Create request whose payload has decoded ends with a verdict, after
\* exactly one ValidateCreate call: Allowed with an empty reason when the call
\* returned no error, Denied with exactly the error's message otherwise.
C2_CreateVerdict ==
  \A i \in Inv :
    (/\ req[i].op = "CREATE"
     /\ Finished(i)
     /\ decodes[i] # <<>>
     /\ DecodeFailures(i) = {})
    => /\ pc[i] = "done"
       /\ Len(calls[i]) = 1
       /\ calls[i][1].method = "ValidateCreate"
       /\ calls[i][1].objVal.replicas = req[i].object.replicas
       /\ IF calls[i][1].err = NoErr
          THEN resp[i] = [kind |-> "Allowed", code |-> 0, reason |-> ""]
          ELSE resp[i] = [kind |-> "Denied", code |-> 0,
                          reason |-> calls[i][1].err]

C2_Witness ==
  \E i \in Inv :
    /\ req[i].op = "CREATE"
    /\ req[i].object = RawJson(-1)
    /\ pc[i] = "done"
    /\ resp[i].kind = "Denied"
    /\ resp[i].reason = "replicas must be >= 0"

\* C3: every ValidateUpdate call is made by an Update request after exactly
\* two successful decodes, the first of Object into the instance passed as
\* the new state, the second of OldObject into the other instance, passed as
\* the old state; the two instances are distinct and each holds what its
\* bytes encode.
C3_UpdateArguments ==
  \A i \in Inv : \A k \in DOMAIN calls[i] :
    calls[i][k].method = "ValidateUpdate"
    => /\ req[i].op = "UPDATE"
       /\ k = 1
       /\ Len(decodes[i]) = 2
       /\ decodes[i][1] = [line |-> "L130", src |-> "Object",
                           raw |-> req[i].object, target |-> calls[i][k].obj,
                           err |-> NoErr]
       /\ decodes[i][2] = [line |-> "L134", src |-> "OldObject",
                           raw |-> req[i].oldObject, target |-> calls[i][k].old,
                           err |-> NoErr]
       /\ calls[i][k].obj # calls[i][k].old
       /\ calls[i][k].obj = ObjId(i)
       /\ calls[i][k].old = OldObjId(i)
       /\ calls[i][k].objVal.replicas = req[i].object.replicas
       /\ calls[i][k].oldVal.replicas = req[i].oldObject.replicas

C3_Witness ==
  \E i \in Inv :
    /\ req[i].op = "UPDATE"
    /\ pc[i] = "done"
    /\ Len(calls[i]) = 1
    /\ calls[i][1].objVal.replicas = 1
    /\ calls[i][1].oldVal.replicas = -1
    /\ resp[i].kind = "Allowed"

\* C4: a Delete request decodes nothing but its OldObject bytes, into the
\* instance made at line 114, and makes no second instance; its only
\* validation call is ValidateDelete on that instance, holding what the
\* OldObject bytes encode; once that call has returned, the verdict is Denied
\* with the error's message, or Allowed when there was no error.
C4_DeleteUsesOldObject ==
  \A i \in Inv :
    req[i].op = "DELETE"
    => /\ oldObj[i] = NoId
       /\ Len(decodes[i]) <= 1
       /\ \A k \in DOMAIN decodes[i] :
            /\ decodes[i][k].src = "OldObject"
            /\ decodes[i][k].raw = req[i].oldObject
            /\ decodes[i][k].target = ObjId(i)
       /\ Len(calls[i]) <= 1
       /\ \A k \in DOMAIN calls[i] :
            /\ calls[i][k].method = "ValidateDelete"
            /\ calls[i][k].obj = ObjId(i)
            /\ Len(decodes[i]) = 1
            /\ DecodeFailures(i) = {}
            /\ calls[i][k].objVal.replicas = req[i].oldObject.replicas
            /\ IF calls[i][k].err = NoErr
               THEN /\ pc[i] \in {"L159", "done"}
                    /\ pc[i] = "done" =>
                         resp[i] = [kind |-> "Allowed", code |-> 0, reason |-> ""]
               ELSE /\ pc[i] = "done"
                    /\ resp[i] = [kind |-> "Denied", code |-> 0,
                                  reason |-> calls[i][k].err]

C4_Witness ==
  \E i \in Inv :
    /\ req[i].op = "DELETE"
    /\ req[i].object = RawJson(0)
    /\ req[i].oldObject = RawJson(1)
    /\ pc[i] = "done"
    /\ resp[i].kind = "Denied"
    /\ resp[i].reason = "scale to zero before delete"

\* The decode sequence a decode call belongs to, by its line.
BranchOf(line) ==
  CASE line = "L116" -> "CREATE"
    [] line \in {"L130", "L134"} -> "UPDATE"
    [] OTHER -> "DELETE"

SequencesRun(i) == {BranchOf(decodes[i][k].line) : k \in DOMAIN decodes[i]}

\* C5, as stated: every request that got a verdict ran exactly one of the
\* three decode sequences.
C5_ExactlyOneSequence ==
  \A i \in Inv : pc[i] = "done" => Cardinality(SequencesRun(i)) = 1

\* C5, amended: a request never runs a decode sequence other than the one of
\* its operation kind, and a request that got a verdict ran exactly that
\* sequence when its kind is Create, Update or Delete, and none otherwise.
C5_AtMostOneSequenceByKind ==
  \A i \in Inv :
    /\ SequencesRun(i) \subseteq {req[i].op}
    /\ pc[i] = "done" =>
         SequencesRun(i) =
           IF req[i].op \in {"CREATE", "UPDATE", "DELETE"} THEN {req[i].op}
           ELSE {}

C5_Witness ==
  /\ \E i \in Inv : pc[i] = "done" /\ req[i].op = "CONNECT"
                    /\ req[i].object = RawGarbage /\ SequencesRun(i) = {}

\* C6, as stated: a request of another operation kind, handled with a
\* non-nil validator, makes no decode and no validation call and returns
\* Allowed.
C6_OtherKindAllowed ==
  \A i \in Inv :
    (req[i].op = "CONNECT" /\ validator # "nil" /\ Finished(i))
    => /\ pc[i] = "done"
       /\ resp[i] = [kind |-> "Allowed", code |-> 0, reason |-> ""]
       /\ decodes[i] = <<>>
       /\ calls[i] = <<>>

\* C6, amended: the same, for a validator whose DeepCopyObject returns, that
\* is a MetaValidator or a ValidatorWrapper around a non-nil Validator; and
\* a request never decodes or validates anything when its kind is not
\* Create, Update or Delete.
C6_OtherKindAllowedWhenCopyReturns ==
  \A i \in Inv :
    req[i].op = "CONNECT"
    => /\ decodes[i] = <<>>
       /\ calls[i] = <<>>
       /\ (/\ Finished(i)
           /\ validator # "nil"
           /\ validator = "wrapper" => wrapped # "nil")
          => /\ pc[i] = "done"
             /\ resp[i] = [kind |-> "Allowed", code |-> 0, reason |-> ""]

C6_Witness ==
  \E i \in Inv :
    /\ req[i].op = "CONNECT"
    /\ req[i].object = RawGarbage
    /\ validator = "wrapper"
    /\ decoder = "nil"
    /\ pc[i] = "done"
    /\ resp[i].kind = "Allowed"

\* C7: with a nil validator an invocation that has passed line 109 has
\* panicked there, with no instance made, no decode, no validation call and
\* no Response, whatever its request; and only a nil validator gives that
\* panic.
C7_NilValidatorPanics ==
  \A i \in Inv :
    /\ (validator = "nil" /\ pc[i] \notin {"idle", "L109"})
       => /\ pc[i] = "panic"
          /\ fault[i] = "validator should never be nil"
          /\ obj[i] = NoId
          /\ heap[ObjId(i)] = NilObj
          /\ decodes[i] = <<>>
          /\ calls[i] = <<>>
          /\ resp[i] = NoResp
    /\ fault[i] = "validator should never be nil" => validator = "nil"

C7_Witness ==
  \E i \in Inv :
    /\ validator = "nil"
    /\ decoder = "set"
    /\ req[i].op = "CONNECT"
    /\ pc[i] = "panic"

\* C8: an adapter method given an instance that does not implement Validator
\* returns an error instead of panicking.
C8_ForeignTypeIsTypedError ==
  (adCur.method # "none" /\ ~Implements(adCur.obj.type))
  => (~adCur.out.panic /\ adCur.out.err # NoErr)

\* C9: ValidateCreate through the adapter, on an instance that implements
\* Validator, invokes that instance's ValidateCreate exactly once and returns
\* its result; and two ValidateCreate calls on equal instances have the same
\* outcome whatever metadata each was given.
C9_CreateDelegation ==
  /\ (adCur.method = "ValidateCreate" /\ Implements(adCur.obj.type))
     => /\ ~adCur.out.panic
        /\ adCur.out.invoked =
             <<[method |-> "ValidateCreate", obj |-> adCur.obj, old |-> NilObj]>>
        /\ adCur.out.err =
             (IF adCur.obj.type = "Native"
              THEN (IF adCur.obj.replicas < 0 THEN "replicas must be >= 0"
                    ELSE NoErr)
              ELSE "other: create refused")
  /\ (/\ adCur.method = "ValidateCreate"
      /\ adPrev.method = "ValidateCreate"
      /\ adCur.obj = adPrev.obj)
     => adCur.out = adPrev.out

C9_Witness ==
  /\ adCur.method = "ValidateCreate"
  /\ adPrev.method = "ValidateCreate"
  /\ adCur.obj = [type |-> "Native", replicas |-> 1]
  /\ adPrev.obj = adCur.obj
  /\ adCur.meta = "mallory"
  /\ adPrev.meta = "alice"
  /\ adCur.out.err = NoErr

\* Handle run alone, start to end, on a handler with validator v (wrapping w)
\* and decoder d: whether it panics, and the Response it returns.
HandleAlone(v, w, d, r) ==
  LET boom == [panic |-> TRUE, resp |-> NoResp]
      ret(x) == [panic |-> FALSE, resp |-> x]
      validated(out) ==
        IF out.panic THEN boom
        ELSE IF out.err # NoErr THEN ret(Denied(out.err))
        ELSE ret(Allowed(""))
  IN IF v = "nil" \/ (v = "wrapper" /\ w = "nil") THEN boom
     ELSE IF r.op \notin {"CREATE", "UPDATE", "DELETE"} THEN ret(Allowed(""))
     ELSE IF d = "nil" THEN boom
     ELSE CASE r.op = "CREATE" ->
                 IF DecodeErr(r.object) # NoErr
                 THEN ret(Errored(400, DecodeErr(r.object)))
                 ELSE validated(ValidatorCall(v, "ValidateCreate",
                        DecodeInto(r.object, EmptyObj), NilObj, r.meta))
            [] r.op = "UPDATE" ->
                 IF DecodeErr(r.object) # NoErr
                 THEN ret(Errored(400, DecodeErr(r.object)))
                 ELSE IF DecodeErr(r.oldObject) # NoErr
                 THEN ret(Errored(400, DecodeErr(r.oldObject)))
                 ELSE validated(ValidatorCall(v, "ValidateUpdate",
                        DecodeInto(r.object, EmptyObj),
                        DecodeInto(r.oldObject, EmptyObj), r.meta))
            [] OTHER ->
                 IF DecodeErr(r.oldObject) # NoErr
                 THEN ret(Errored(400, DecodeErr(r.oldObject)))
                 ELSE validated(ValidatorCall(v, "ValidateDelete",
                        DecodeInto(r.oldObject, EmptyObj), NilObj, r.meta))

\* The instances invocation i has decoded into or handed to validation.
Touched(i) ==
  {decodes[i][k].target : k \in DOMAIN decodes[i]}
  \cup {calls[i][k].obj : k \in DOMAIN calls[i]}
  \cup ({calls[i][k].old : k \in DOMAIN calls[i]} \ {NoId})

C10_Isolated ==
  /\ \A i \in Inv : Touched(i) \subseteq {ObjId(i), OldObjId(i)}
  /\ \A i, j \in Inv : i # j => Touched(i) \cap Touched(j) = {}
  /\ \A i \in Inv :
       Finished(i) =>
         LET alone == HandleAlone(validator, wrapped, decoder, req[i])
         IN /\ (pc[i] = "panic") = alone.panic
            /\ resp[i] = alone.resp

\* C10: no step of an invocation of Handle changes the handler's validator
\* or decoder; under any interleaving no instance is decoded into or
\* validated by two invocations; and every finished invocation ended as its
\* request ends when Handle runs alone on a handler wired the same way.
C10_NoSharedState ==
  /\ []C10_Isolated
  /\ [][(\E i \in Inv : pc'[i] # pc[i]) => hvars' = hvars]_vars

C10_Witness ==
  \E i, j \in Inv :
    /\ i # j
    /\ pc[i] = "done" /\ resp[i].kind = "Allowed" /\ req[i].op = "CREATE"
    /\ pc[j] = "L153" /\ req[j].op = "DELETE"
    /\ Len(decodes[j]) = 1

====
